---- MODULE Spec2Model ----
(***************************************************************************)
(* A model of EIS.py: the start-up scan of txt/*.mpt into cell_data and    *)
(* failed_files, the query parser parse_search_string, get_legend_name,    *)
(* the search callback update_graph_and_store_data and the export callback *)
(* download_data.                                                          *)
(*                                                                         *)
(* Python strings are sequences of one-character strings, so that split,   *)
(* strip, isdigit, int(), str() and string comparison are computed and not *)
(* assumed.  A DataFrame is a record [columns, data]: the column names in  *)
(* order and the rows, each row a sequence aligned with the columns.       *)
(***************************************************************************)
EXTENDS Integers, Sequences, FiniteSets, TLC

\* ------------------------------------------------------------------ bounds
\* Longest query text explored by SpecParse.
MaxLen == 4
\* Most files the directory scan finds.
MaxFiles == 2
\* Highest click count of the download button that is explored.
MaxClicks == 2

\* ------------------------------------------------------ Python primitives
\* Python's None where a string may stand (a string's characters are single
\* characters, so no string equals it).
None == <<"None">>

\* The missing value of a numeric column; the measured values of the model are
\* natural numbers.
NaN == -1

\* A value that may be None, where a record may stand: <<>> is None, <<v>> is v.
Nothing == <<>>

Some(v) == <<v>>

DigitChars == <<"0", "1", "2", "3", "4", "5", "6", "7", "8", "9">>

Digits == {DigitChars[k] : k \in 1..10}

\* The value of a decimal digit character.
DigitVal(c) == (CHOOSE k \in 1..10 : DigitChars[k] = c) - 1

\* Code point of the characters the model uses (Python compares strings by
\* code point).
Ord(c) ==
  CASE c = " " -> 32 [] c = "(" -> 40 [] c = ")" -> 41 [] c = "," -> 44
    [] c = "-" -> 45 [] c = "." -> 46 [] c = "/" -> 47
    [] c \in Digits -> 48 + DigitVal(c)
    [] c = "C" -> 67 [] c = "H" -> 72 [] c = "I" -> 73 [] c = "O" -> 79
    [] c = "R" -> 82 [] c = "Z" -> 90 [] c = "_" -> 95
    [] c = "a" -> 97 [] c = "b" -> 98 [] c = "c" -> 99 [] c = "d" -> 100
    [] c = "e" -> 101 [] c = "f" -> 102 [] c = "h" -> 104 [] c = "i" -> 105
    [] c = "l" -> 108 [] c = "m" -> 109 [] c = "n" -> 110 [] c = "o" -> 111
    [] c = "p" -> 112 [] c = "q" -> 113
    [] c = "r" -> 114 [] c = "s" -> 115 [] c = "t" -> 116 [] c = "u" -> 117
    [] c = "x" -> 120 [] c = "z" -> 122

\* a < b for Python strings.
RECURSIVE StrLess(_, _)
StrLess(a, b) ==
  IF b = <<>> THEN FALSE
  ELSE IF a = <<>> THEN TRUE
  ELSE IF Head(a) = Head(b) THEN StrLess(Tail(a), Tail(b))
  ELSE Ord(Head(a)) < Ord(Head(b))

\* str.split(sep) for a one-character separator: always at least one part.
RECURSIVE SplitFrom(_, _, _, _)
SplitFrom(s, sep, k, cur) ==
  IF k > Len(s) THEN <<cur>>
  ELSE IF s[k] = sep THEN <<cur>> \o SplitFrom(s, sep, k + 1, <<>>)
  ELSE SplitFrom(s, sep, k + 1, Append(cur, s[k]))

Split(s, sep) == SplitFrom(s, sep, 1, <<>>)

\* str.rsplit(sep, 1): split once, at the last separator.
RSplit1(s, sep) ==
  IF \E k \in 1..Len(s) : s[k] = sep
  THEN LET k == CHOOSE j \in 1..Len(s) :
                  s[j] = sep /\ \A m \in (j + 1)..Len(s) : s[m] # sep
       IN  <<SubSeq(s, 1, k - 1), SubSeq(s, k + 1, Len(s))>>
  ELSE <<s>>

\* str.strip(): leading and trailing blanks removed.
RECURSIVE LStrip(_)
LStrip(s) == IF s # <<>> /\ Head(s) = " " THEN LStrip(Tail(s)) ELSE s

RECURSIVE RStrip(_)
RStrip(s) ==
  IF s # <<>> /\ s[Len(s)] = " " THEN RStrip(SubSeq(s, 1, Len(s) - 1)) ELSE s

Strip(s) == RStrip(LStrip(s))

\* str.isdigit(): non-empty and every character a digit.
IsDigit(s) == s # <<>> /\ \A k \in 1..Len(s) : s[k] \in Digits

\* str.startswith(c) for a one-character prefix.
StartsWith(s, c) == s # <<>> /\ Head(s) = c

\* The number a string of digits denotes.
RECURSIVE DigitsValue(_)
DigitsValue(s) ==
  IF s = <<>> THEN 0
  ELSE 10 * DigitsValue(SubSeq(s, 1, Len(s) - 1)) + DigitVal(s[Len(s)])

\* int(s): blanks around the literal are accepted, anything but digits inside
\* raises ValueError.  (Signs and digit-group underscores are outside the
\* alphabets used here: a '-' never survives split('-'), a '_' never survives
\* split('_').)
IntParse(s) ==
  LET t == Strip(s)
  IN  IF IsDigit(t) THEN [ok |-> TRUE, val |-> DigitsValue(t)]
      ELSE [ok |-> FALSE, val |-> 0]

\* str(n) for n >= 0.
RECURSIVE IntToStr(_)
IntToStr(n) ==
  IF n < 10 THEN <<DigitChars[n + 1]>>
  ELSE Append(IntToStr(n \div 10), DigitChars[(n % 10) + 1])

\* ---------------------------------------------------- parse_search_string
\* Lines 64-75: one stripped, non-empty part of the query.
ParsePart(part, ids) ==
  IF \E k \in 1..Len(part) : part[k] = "-"
  THEN LET pieces == Split(part, "-")
           a == IntParse(pieces[1])
           b == IntParse(pieces[2])
       IN  \* start, end = map(int, ...) raises ValueError unless there are
           \* exactly two pieces and both are integers
           IF Len(pieces) = 2 /\ a.ok /\ b.ok
           THEN LET start == IF a.val > b.val THEN b.val ELSE a.val
                    end == IF a.val > b.val THEN a.val ELSE b.val
                IN  ids \cup {IntToStr(n) : n \in start..end}
           ELSE ids
  ELSE IF IsDigit(part) THEN ids \cup {part} ELSE ids

\* Lines 59-75: the loop over the comma-separated parts.
RECURSIVE ParseLoop(_, _, _)
ParseLoop(parts, k, ids) ==
  IF k > Len(parts) THEN ids
  ELSE LET part == Strip(parts[k])
       IN  IF part = <<>> THEN ParseLoop(parts, k + 1, ids)
           ELSE ParseLoop(parts, k + 1, ParsePart(part, ids))

parse_search_string(query_string) ==
  IF query_string = None \/ query_string = <<>> THEN {}
  ELSE ParseLoop(Split(query_string, ","), 1, {})

\* get_legend_name without the test that digits follow the 'C'.
get_legend_name_any_C(full_cell_name) ==
  LET parts == RSplit1(full_cell_name, "_")
  IN  IF Len(parts) = 2 /\ StartsWith(parts[2], "C")
      THEN parts[1]
      ELSE full_cell_name

\* --------------------------------------------------------- get_legend_name
get_legend_name(full_cell_name) ==
  LET parts == RSplit1(full_cell_name, "_")
  IN  IF /\ Len(parts) = 2
         /\ StartsWith(parts[2], "C")
         /\ IsDigit(Tail(parts[2]))
      THEN parts[1]
      ELSE full_cell_name

\* ------------------------------------------------------------- file system
\* os.path.basename: what follows the last '/'.
Basename(p) == LET parts == Split(p, "/") IN parts[Len(parts)]

\* os.path.splitext(name)[0]: the name up to its last '.', a dot that only
\* follows dots (a hidden file's) not counting.
Splitext0(name) ==
  LET dots == {k \in 1..Len(name) :
                 name[k] = "." /\ \E j \in 1..(k - 1) : name[j] # "."}
  IN  IF dots = {} THEN name
      ELSE SubSeq(name, 1, (CHOOSE k \in dots : \A j \in dots : j <= k) - 1)

\* The column headers.
RE == <<"R", "e", "(", "Z", ")", "/", "O", "h", "m">>

IM == <<"-", "I", "m", "(", "Z", ")", "/", "O", "h", "m">>

FREQ == <<"f", "r", "e", "q", "/", "H", "z">>

SOURCE_FILE == <<"s", "o", "u", "r", "c", "e", "_", "f", "i", "l", "e">>

MEASUREMENT_INDEX ==
  <<"m", "e", "a", "s", "u", "r", "e", "m", "e", "n", "t", "_",
    "i", "n", "d", "e", "x">>

TxtDir == <<"t", "x", "t", "/">>

MptExt == <<".", "m", "p", "t">>

\* The instrument files the directory may hold, by stem.
Stem_1_a_C1 == <<"1", "_", "a", "_", "C", "1">>

Stem_1_a_C2 == <<"1", "_", "a", "_", "C", "2">>

Stem_12_b_C == <<"1", "2", "_", "b", "_", "C">>

Stem_2 == <<"2">>

Stem_3_c1 == <<"3", "_", "c", "1">>

Stem_x_1 == <<"x", "_", "1">>

Stem_7_z == <<"7", "_", "z">>

Stems ==
  {Stem_1_a_C1, Stem_1_a_C2, Stem_12_b_C, Stem_2, Stem_3_c1, Stem_x_1,
   Stem_7_z}

PathOf(stem) == TxtDir \o stem \o MptExt

\* pd.read_csv(filepath, sep='\t', skiprows=63, encoding='latin-1'): the table
\* a file holds, or an exception.  1_a_C1 has two points, 1_a_C2 one point and
\* a further column, 12_b_C one point, 2 a header and no point, 3_c1 its
\* columns in the other order, x_1 lacks the -Im(Z)/Ohm column, and 7_z is not
\* readable as a table.
read_csv(filepath) ==
  LET stem == Splitext0(Basename(filepath))
      Table(cols, rows) ==
        [ok |-> TRUE, df |-> [columns |-> cols, data |-> rows]]
  IN  CASE stem = Stem_1_a_C1 -> Table(<<RE, IM>>, <<<<11, 12>>, <<13, 14>>>>)
        [] stem = Stem_1_a_C2 -> Table(<<FREQ, RE, IM>>, <<<<90, 21, 22>>>>)
        [] stem = Stem_12_b_C -> Table(<<RE, IM>>, <<<<31, 32>>>>)
        [] stem = Stem_2 -> Table(<<RE, IM>>, <<>>)
        [] stem = Stem_3_c1 -> Table(<<IM, RE>>, <<<<42, 41>>>>)
        [] stem = Stem_x_1 -> Table(<<FREQ, RE>>, <<<<90, 51>>>>)
        [] OTHER -> [ok |-> FALSE, df |-> [columns |-> <<>>, data |-> <<>>]]

\* glob.glob('txt/*.mpt'): the files found, in the order the directory
\* yields them, no name twice.
Directories ==
  {d \in UNION {[1..n -> {PathOf(s) : s \in Stems}] : n \in 0..MaxFiles} :
     \A j, k \in 1..Len(d) : j # k => d[j] # d[k]}

\* ------------------------------------------------------------- DataFrames
HasColumn(df, col) == \E k \in 1..Len(df.columns) : df.columns[k] = col

ColIndex(df, col) == CHOOSE k \in 1..Len(df.columns) : df.columns[k] = col

\* df[col]: the column's values in row order.
Column(df, col) == [r \in 1..Len(df.data) |-> df.data[r][ColIndex(df, col)]]

\* cell_data is a dict: the (key, value) pairs in insertion order.
DictKeys(d) == [k \in 1..Len(d) |-> d[k].key]

DictHas(d, key) == \E k \in 1..Len(d) : d[k].key = key

DictGet(d, key) == d[CHOOSE k \in 1..Len(d) : d[k].key = key].value

\* d[key] = value: a present key keeps its place.
DictSet(d, key, value) ==
  IF DictHas(d, key)
  THEN [k \in 1..Len(d) |->
          IF d[k].key = key THEN [key |-> key, value |-> value] ELSE d[k]]
  ELSE Append(d, [key |-> key, value |-> value])

\* ------------------------------------------------------ start-up ingestion
\* The loop body with an except branch that only prints.
ingest_file_unrecorded(filepath, cd, failed) ==
  LET r == read_csv(filepath)
  IN  IF r.ok
      THEN IF HasColumn(r.df, RE) /\ HasColumn(r.df, IM)
           THEN [cell_data |-> DictSet(cd, Splitext0(Basename(filepath)), r.df),
                 failed_files |-> failed]
           ELSE [cell_data |-> cd,
                 failed_files |-> Append(failed, Basename(filepath))]
      ELSE [cell_data |-> cd, failed_files |-> failed]

\* Lines 17-27: the body of the loop over mpt_files, for one file.
ingest_file(filepath, cd, failed) ==
  LET r == read_csv(filepath)
  IN  IF r.ok
      THEN IF HasColumn(r.df, RE) /\ HasColumn(r.df, IM)
           THEN [cell_data |-> DictSet(cd, Splitext0(Basename(filepath)), r.df),
                 failed_files |-> failed]
           ELSE [cell_data |-> cd,
                 failed_files |-> Append(failed, Basename(filepath))]
      ELSE [cell_data |-> cd,
            failed_files |-> Append(failed, Basename(filepath))]

\* The key of line 36: int(os.path.basename(p).split('_')[0]).
LargestKey(p) == IntParse(Split(Basename(p), "_")[1])

\* Lines 33-40: max() takes the first file with the largest key, and raises
\* ValueError as soon as one key is no integer.
largest_file(files) ==
  IF files = <<>> THEN [kind |-> "None", cell |-> <<>>]
  ELSE IF \A k \in 1..Len(files) : LargestKey(files[k]).ok
  THEN LET best == CHOOSE k \in 1..Len(files) :
                     /\ \A j \in 1..Len(files) :
                          LargestKey(files[j]).val <= LargestKey(files[k]).val
                     /\ \A j \in 1..(k - 1) :
                          LargestKey(files[j]).val < LargestKey(files[k]).val
       IN  [kind |-> "cell", cell |-> Splitext0(Basename(files[best]))]
  ELSE [kind |-> "Could not parse filenames.", cell |-> <<>>]

\* --------------------------------------------- update_graph_and_store_data
PromptText == "Enter Cell IDs and click Search or press Enter"

NoMatchText == "No matching cells found."

\* sorted(list(strings)): ascending by code point.
RECURSIVE SortStrings(_)
SortStrings(S) ==
  IF S = {} THEN <<>>
  ELSE LET m == CHOOSE a \in S : \A b \in S : ~StrLess(b, a)
       IN  <<m>> \o SortStrings(S \ {m})

\* Matching by cell.startswith(exp_id) in place of the token's equality.
matching_cells_prefix(cd, exp_id) ==
  SelectSeq(DictKeys(cd),
            LAMBDA cell : /\ Len(exp_id) <= Len(cell)
                          /\ SubSeq(cell, 1, Len(exp_id)) = exp_id)

\* Line 145: the keys whose token before the first underscore is exp_id.
matching_cells(cd, exp_id) ==
  SelectSeq(DictKeys(cd), LAMBDA cell : Split(cell, "_")[1] = exp_id)

\* df_to_store['source_file'] = cell_name: the column is set in every row,
\* added as the last column when the table has none of that name.
SetSourceFile(df, cell_name) ==
  IF HasColumn(df, SOURCE_FILE)
  THEN [df EXCEPT !.data =
          [r \in 1..Len(df.data) |->
             [df.data[r] EXCEPT ![ColIndex(df, SOURCE_FILE)] = cell_name]]]
  ELSE [columns |-> Append(df.columns, SOURCE_FILE),
        data |-> [r \in 1..Len(df.data) |-> Append(df.data[r], cell_name)]]

\* Tagging the indexed table itself (df_to_store = df, no copy).
copy_and_tag_aliased(cd, cell_name) ==
  LET tagged == SetSourceFile(DictGet(cd, cell_name), cell_name)
  IN  [cell_data |-> DictSet(cd, cell_name, tagged), df_to_store |-> tagged]

\* Lines 157-158: the table is copied and the copy tagged, so the table
\* cell_data holds stays as it is.
copy_and_tag(cd, cell_name) ==
  [cell_data |-> cd,
   df_to_store |-> SetSourceFile(DictGet(cd, cell_name), cell_name)]

\* Lines 147-159, for one matching cell.  acc holds cell_data, the traces of
\* the figure and plotted_dfs.
plot_cell(acc, cell_name) ==
  LET df == DictGet(acc.cell_data, cell_name)
      legend_name == get_legend_name(cell_name)
      trace == [x |-> Column(df, RE),
                y |-> Column(df, IM),
                name |-> legend_name,
                legendgroup |-> legend_name,
                customdata |-> [r \in 1..Len(df.data) |-> cell_name]]
      tagged == copy_and_tag(acc.cell_data, cell_name)
  IN  [cell_data |-> tagged.cell_data,
       traces |-> Append(acc.traces, trace),
       plotted_dfs |-> Append(acc.plotted_dfs, tagged.df_to_store)]

RECURSIVE PlotCells(_, _, _)
PlotCells(cells, k, acc) ==
  IF k > Len(cells) THEN acc
  ELSE PlotCells(cells, k + 1, plot_cell(acc, cells[k]))

\* Lines 144-159: the loop over the sorted identifiers.
RECURSIVE PlotIds(_, _, _)
PlotIds(ids, k, acc) ==
  IF k > Len(ids) THEN acc
  ELSE PlotIds(ids, k + 1,
               PlotCells(matching_cells(acc.cell_data, ids[k]), 1, acc))

\* pd.concat(dfs, ignore_index=True): the columns in order of first
\* appearance, the rows one table after the other, NaN where a table lacks
\* a column.
RECURSIVE ConcatColumns(_, _, _)
ConcatColumns(dfs, k, cols) ==
  IF k > Len(dfs) THEN cols
  ELSE ConcatColumns(dfs, k + 1,
         cols \o SelectSeq(dfs[k].columns,
                           LAMBDA c : \A j \in 1..Len(cols) : cols[j] # c))

RECURSIVE ConcatRows(_, _, _)
ConcatRows(dfs, k, cols) ==
  IF k > Len(dfs) THEN <<>>
  ELSE [r \in 1..Len(dfs[k].data) |->
          [c \in 1..Len(cols) |->
             IF HasColumn(dfs[k], cols[c])
             THEN dfs[k].data[r][ColIndex(dfs[k], cols[c])]
             ELSE NaN]]
       \o ConcatRows(dfs, k + 1, cols)

concat(dfs) ==
  LET cols == ConcatColumns(dfs, 1, <<>>)
  IN  [columns |-> cols, data |-> ConcatRows(dfs, 1, cols)]

\* df.to_json(orient='split'): the document {"columns", "index", "data"}; the
\* index of the concatenation is 0..n-1.  The measured values of the model
\* are within the precision the document keeps.
to_json(df) ==
  [columns |-> df.columns,
   index |-> [r \in 1..Len(df.data) |-> r - 1],
   data |-> df.data]

\* Lines 132-172.  The result holds the two outputs (figure, store), the
\* identifiers parsed and cell_data as the call leaves it.
update_graph_and_store_data(button_clicks, enter_presses, search_query, cd) ==
  IF button_clicks = 0 /\ (enter_presses = Nothing \/ enter_presses = Some(0))
  THEN [figure |-> [data |-> <<>>, annotation |-> PromptText],
        store |-> Nothing,
        target_ids |-> {},
        cell_data |-> cd]
  ELSE LET ids == parse_search_string(search_query)
           acc == PlotIds(SortStrings(ids), 1,
                          [cell_data |-> cd, traces |-> <<>>,
                           plotted_dfs |-> <<>>])
       IN  IF acc.plotted_dfs = <<>>
           THEN [figure |-> [data |-> acc.traces, annotation |-> NoMatchText],
                 store |-> Nothing,
                 target_ids |-> ids,
                 cell_data |-> acc.cell_data]
           ELSE [figure |-> [data |-> acc.traces, annotation |-> ""],
                 store |-> Some(to_json(concat(acc.plotted_dfs))),
                 target_ids |-> ids,
                 cell_data |-> acc.cell_data]

\* ------------------------------------------------------------ download_data
\* pd.read_json(io.StringIO(json_data), orient='split').  (A source_file
\* column whose every entry reads as a number comes back numeric and is
\* formatted again at line 194; for the stems of the model, decimal numbers
\* without leading zeros, that gives the same text.)
read_json(js) == [columns |-> js.columns, data |-> js.data]

\* df.groupby(by).cumcount(): for each row, how many earlier rows have its
\* value of the column.
cumcount(df, by) ==
  LET col == Column(df, by)
  IN  [r \in 1..Len(df.data) |->
         Cardinality({q \in 1..(r - 1) : col[q] = col[r]})]

\* df[name] = values, for a column the table does not have yet.
AddColumn(df, name, values) ==
  [columns |-> Append(df.columns, name),
   data |-> [r \in 1..Len(df.data) |-> Append(df.data[r], values[r])]]

RECURSIVE SortInts(_)
SortInts(S) ==
  IF S = {} THEN <<>>
  ELSE LET m == CHOOSE a \in S : \A b \in S : a <= b
       IN  <<m>> \o SortInts(S \ {m})

\* A pivot that fills the cells without a row with 0.
PivotCell_zero_filled(df, index, columns, value, iv, cv) ==
  LET rows == {r \in 1..Len(df.data) :
                 /\ Column(df, index)[r] = iv
                 /\ Column(df, columns)[r] = cv}
  IN  IF rows = {} THEN 0
      ELSE Column(df, value)[CHOOSE r \in rows : TRUE]

\* The value a pivoted table holds at (index value, column value) for one
\* value column: that of the one row with these two, NaN when there is none.
PivotCell(df, index, columns, value, iv, cv) ==
  LET rows == {r \in 1..Len(df.data) :
                 /\ Column(df, index)[r] = iv
                 /\ Column(df, columns)[r] = cv}
  IN  IF rows = {} THEN NaN
      ELSE Column(df, value)[CHOOSE r \in rows : TRUE]

\* df.pivot(index=..., columns=..., values=[...]): one row per index value in
\* ascending order; the columns are the pairs (value column, column value),
\* value columns in the order given and column values ascending.
pivot(df, index, columns, values) ==
  LET ivs == SortInts({Column(df, index)[r] : r \in 1..Len(df.data)})
      cvs == SortStrings({Column(df, columns)[r] : r \in 1..Len(df.data)})
      pairs == [k \in 1..(Len(values) * Len(cvs)) |->
                  <<values[((k - 1) \div Len(cvs)) + 1],
                    cvs[((k - 1) % Len(cvs)) + 1]>>]
  IN  [columns |-> pairs,
       data |-> [i \in 1..Len(ivs) |->
                   [k \in 1..Len(pairs) |->
                      PivotCell(df, index, columns, pairs[k][1],
                                ivs[i], pairs[k][2])]]]

\* Line 194: f'{val}_{col}'.
wide_column_name(pair) == pair[1] \o <<"_">> \o pair[2]

\* df.reindex(sorted(df.columns), axis=1): the columns in ascending order of
\* their names, each with its values.
reindex_sorted(df) ==
  LET names == SortStrings({df.columns[k] : k \in 1..Len(df.columns)})
  IN  [columns |-> names,
       data |-> [i \in 1..Len(df.data) |->
                   [k \in 1..Len(names) |->
                      df.data[i][ColIndex(df, names[k])]]]]

\* Lines 184-199: the wide table written to the CSV (index=False: the
\* columns and the rows, no index column).  The time-stamped file name is
\* left out.
wide_table(json_data) ==
  LET df_read == read_json(json_data)
      df_long == AddColumn(df_read, MEASUREMENT_INDEX,
                           cumcount(df_read, SOURCE_FILE))
      df_wide == pivot(df_long, MEASUREMENT_INDEX, SOURCE_FILE, <<RE, IM>>)
      renamed == [df_wide EXCEPT !.columns =
                    [k \in 1..Len(df_wide.columns) |->
                       wide_column_name(df_wide.columns[k])]]
  IN  reindex_sorted(renamed)

\* Lines 180-199: None for an empty store, else the download.
download_data(clicks, json_data) ==
  IF json_data = Nothing THEN Nothing
  ELSE Some(wide_table(json_data[1]))

\* ------------------------------------------------------------------- state
VARIABLES
  pc,                    \* "ingest", "serve"; "parse", "parsed" in SpecParse
  mpt_files,             \* line 12: the files found
  file_idx,              \* files the loop of line 16 has been through
  cell_data,             \* line 14
  failed_files,          \* line 15
  files_found_count,     \* line 13
  files_loaded_count,    \* line 29
  largest_file_message,  \* lines 33-40
  search_query,          \* the text the search callback was last given
  target_ids,            \* line 139, of the last search callback
  figure,                \* Output('nyquist-plot', 'figure')
  store,                 \* dcc.Store 'plotted-data-store'
  download,              \* Output('download-data-csv', 'data')
  n_clicks,              \* clicks of the download button
  lastCallback,          \* the callback that ran last
  pivot_empty_raises     \* whether the pandas installed refuses to pivot a
                         \* table without rows

vars ==
  <<pc, mpt_files, file_idx, cell_data, failed_files, files_found_count,
    files_loaded_count, largest_file_message, search_query, target_ids,
    figure, store, download, n_clicks, lastCallback, pivot_empty_raises>>

startupVars ==
  <<mpt_files, file_idx, files_found_count, files_loaded_count,
    largest_file_message, pivot_empty_raises>>

NoFigure == [data |-> <<>>, annotation |-> ""]

NoMessage == [kind |-> "", cell |-> <<>>]

\* Lines 12-15: the scan is done, nothing is loaded, no page is open.
Init ==
  /\ pc = "ingest"
  /\ mpt_files \in Directories
  /\ file_idx = 0
  /\ cell_data = <<>>
  /\ failed_files = <<>>
  /\ files_found_count = Len(mpt_files)
  /\ files_loaded_count = 0
  /\ largest_file_message = NoMessage
  /\ search_query = None
  /\ target_ids = {}
  /\ figure = NoFigure
  /\ store = Nothing
  /\ download = Nothing
  /\ n_clicks = 0
  /\ lastCallback = "none"
  /\ pivot_empty_raises \in BOOLEAN

\* Lines 16-27: one turn of the loop.
IngestFile ==
  /\ pc = "ingest"
  /\ file_idx < Len(mpt_files)
  /\ LET r == ingest_file(mpt_files[file_idx + 1], cell_data, failed_files)
     IN  /\ cell_data' = r.cell_data
         /\ failed_files' = r.failed_files
  /\ file_idx' = file_idx + 1
  /\ UNCHANGED <<pc, mpt_files, files_found_count, files_loaded_count,
                 largest_file_message, search_query, target_ids, figure,
                 store, download, n_clicks, lastCallback,
                 pivot_empty_raises>>

\* Lines 29-40, after the loop: the counts and the largest-id message; the
\* application then serves.
FinishStartup ==
  /\ pc = "ingest"
  /\ file_idx = Len(mpt_files)
  /\ files_loaded_count' = Len(cell_data)
  /\ largest_file_message' = largest_file(mpt_files)
  /\ pc' = "serve"
  /\ UNCHANGED <<mpt_files, file_idx, cell_data, failed_files,
                 files_found_count, search_query, target_ids, figure, store,
                 download, n_clicks, lastCallback, pivot_empty_raises>>

\* The texts typed into the search box.
SearchQueries ==
  {None,
   <<"1">>,
   <<"1", "2">>,
   <<"7">>,
   <<"2", ",", "1", "2">>,
   <<"3", "-", "1">>,
   <<"a", ",", " ", "3">>}

\* A page is loaded: Dash calls the search callback once with no click, no
\* Enter and an empty box, and the page's components start afresh.
PageLoad ==
  /\ pc = "serve"
  /\ \E enter_presses \in {Nothing, Some(0)} :
       LET r == update_graph_and_store_data(0, enter_presses, None, cell_data)
       IN  /\ figure' = r.figure
           /\ store' = r.store
           /\ target_ids' = r.target_ids
           /\ cell_data' = r.cell_data
  /\ search_query' = None
  /\ download' = Nothing
  /\ n_clicks' = 0
  /\ lastCallback' = "update_graph_and_store_data"
  /\ UNCHANGED <<pc, failed_files>>
  /\ UNCHANGED startupVars

\* A search that leaves the store alone when nothing matches (as returning
\* dash.no_update for the store would).
Search_no_update ==
  /\ pc = "serve"
  /\ \E button_clicks \in 0..1, enter_presses \in {Some(0), Some(1)},
        query \in SearchQueries :
       /\ button_clicks > 0 \/ enter_presses = Some(1)
       /\ LET r == update_graph_and_store_data(button_clicks, enter_presses,
                                               query, cell_data)
          IN  /\ figure' = r.figure
              /\ store' = IF r.store = Nothing THEN store ELSE r.store
              /\ target_ids' = r.target_ids
              /\ cell_data' = r.cell_data
       /\ search_query' = query
  /\ lastCallback' = "update_graph_and_store_data"
  /\ UNCHANGED <<pc, failed_files, download, n_clicks>>
  /\ UNCHANGED startupVars

\* The Search button is clicked or Enter is pressed in the box (n_submit is
\* a number once the page is up).
Search ==
  /\ pc = "serve"
  /\ \E button_clicks \in 0..1, enter_presses \in {Some(0), Some(1)},
        query \in SearchQueries :
       /\ button_clicks > 0 \/ enter_presses = Some(1)
       /\ LET r == update_graph_and_store_data(button_clicks, enter_presses,
                                               query, cell_data)
          IN  /\ figure' = r.figure
              /\ store' = r.store
              /\ target_ids' = r.target_ids
              /\ cell_data' = r.cell_data
       /\ search_query' = query
  /\ lastCallback' = "update_graph_and_store_data"
  /\ UNCHANGED <<pc, failed_files, download, n_clicks>>
  /\ UNCHANGED startupVars

\* The stored table has no row: every cell plotted had a header and no point.
EmptyStored == store # Nothing /\ store[1].data = <<>>

\* An export that empties the store it has read.
Download_consuming ==
  /\ pc = "serve"
  /\ n_clicks < MaxClicks
  /\ ~EmptyStored
  /\ n_clicks' = n_clicks + 1
  /\ download' = download_data(n_clicks + 1, store)
  /\ store' = Nothing
  /\ lastCallback' = "download_data"
  /\ UNCHANGED <<pc, cell_data, failed_files, search_query, target_ids,
                 figure>>
  /\ UNCHANGED startupVars

\* The download button is clicked.
Download ==
  /\ pc = "serve"
  /\ n_clicks < MaxClicks
  /\ ~EmptyStored
  /\ n_clicks' = n_clicks + 1
  /\ download' = download_data(n_clicks + 1, store)
  /\ lastCallback' = "download_data"
  /\ UNCHANGED <<pc, cell_data, failed_files, search_query, target_ids,
                 figure, store>>
  /\ UNCHANGED startupVars

\* The download button is clicked on a stored table without rows.  What
\* pivot makes of an empty table depends on the pandas installed: a table
\* without columns, or an exception, after which Dash leaves the output as
\* it was.
DownloadEmpty ==
  /\ pc = "serve"
  /\ n_clicks < MaxClicks
  /\ EmptyStored
  /\ n_clicks' = n_clicks + 1
  /\ download' = IF pivot_empty_raises THEN download
                 ELSE download_data(n_clicks + 1, store)
  /\ lastCallback' = "download_data"
  /\ UNCHANGED <<pc, cell_data, failed_files, search_query, target_ids,
                 figure, store>>
  /\ UNCHANGED startupVars

Next ==
  \/ IngestFile
  \/ FinishStartup
  \/ PageLoad
  \/ Search
  \/ Download
  \/ DownloadEmpty

Spec == Init /\ [][Next]_vars

\* ------------------------------------------------- the parser on its own
QueryAlphabet == {"0", "1", "2", " ", ",", "-", "a"}

\* Every text of at most MaxLen characters, and the None of an untouched box.
QueryStrings ==
  {None} \cup UNION {[1..n -> QueryAlphabet] : n \in 0..MaxLen}

InitParse ==
  /\ pc = "parse"
  /\ search_query \in QueryStrings
  /\ mpt_files = <<>>
  /\ file_idx = 0
  /\ cell_data = <<>>
  /\ failed_files = <<>>
  /\ files_found_count = 0
  /\ files_loaded_count = 0
  /\ largest_file_message = NoMessage
  /\ target_ids = {}
  /\ figure = NoFigure
  /\ store = Nothing
  /\ download = Nothing
  /\ n_clicks = 0
  /\ lastCallback = "none"
  /\ pivot_empty_raises = FALSE

\* Line 139: the text is parsed.
Parse ==
  /\ pc = "parse"
  /\ target_ids' = parse_search_string(search_query)
  /\ pc' = "parsed"
  /\ UNCHANGED <<cell_data, failed_files, search_query, figure, store,
                 download, n_clicks, lastCallback>>
  /\ UNCHANGED startupVars

NextParse == Parse

SpecParse == InitParse /\ [][NextParse]_vars

\* ------------------------------------------------------------------ claims
\* What a token denotes in the query grammar: a single non-negative integer
\* denotes itself, 'a-b' every integer between its two bounds, anything else
\* nothing.  A bound may have blanks around it.
C1_TokenValues(token) ==
  LET hyphens == {k \in 1..Len(token) : token[k] = "-"}
  IN  IF hyphens = {}
      THEN IF IsDigit(token) THEN {DigitsValue(token)} ELSE {}
      ELSE IF Cardinality(hyphens) = 1
      THEN LET h == CHOOSE k \in hyphens : TRUE
               a == Strip(SubSeq(token, 1, h - 1))
               b == Strip(SubSeq(token, h + 1, Len(token)))
           IN  IF IsDigit(a) /\ IsDigit(b)
               THEN {n \in 0..(DigitsValue(a) + DigitsValue(b)) :
                       \/ DigitsValue(a) <= n /\ n <= DigitsValue(b)
                       \/ DigitsValue(b) <= n /\ n <= DigitsValue(a)}
               ELSE {}
      ELSE {}

C1_Denoted(text) ==
  IF text = None THEN {}
  ELSE LET tokens == Split(text, ",")
       IN  {IntToStr(n) :
              n \in UNION {C1_TokenValues(Strip(tokens[k])) :
                             k \in 1..Len(tokens)}}

\* C1: parse_search_string returns, for every query text, exactly the decimal
\* strings of the integers its well-formed tokens denote: a single
\* non-negative integer gives the decimal string of that integer, 'a-b' every
\* integer from min(a,b) to max(a,b), every other token nothing, and an empty
\* or blank text the empty set.
C1_ParseDenotes ==
  pc = "parsed" => target_ids = C1_Denoted(search_query)

\* The token of a name before its first underscore (the whole name when it
\* has none).
LeadingToken(name) ==
  LET us == {k \in 1..Len(name) : name[k] = "_"}
  IN  IF us = {} THEN name
      ELSE SubSeq(name, 1, (CHOOSE k \in us : \A j \in us : k <= j) - 1)

\* The orders in which the members of a finite set can be listed.
Orders(S) ==
  {o \in [1..Cardinality(S) -> S] :
     \A j, k \in 1..Cardinality(S) : j # k => o[j] # o[k]}

\* The records of the index the identifiers of the last query select.
MatchedCells ==
  {c \in {cell_data[k].key : k \in 1..Len(cell_data)} :
     LeadingToken(c) \in target_ids}

\* Trace t plots the points of indexed cell c, in the order of the record.
IsSeriesOf(t, c) ==
  LET df == DictGet(cell_data, c)
  IN  /\ t.x = Column(df, RE)
      /\ t.y = Column(df, IM)
      /\ t.customdata = [r \in 1..Len(df.data) |-> c]

\* The points of indexed cell c as rows (Re, -Im, cell name).
RECURSIVE TaggedRows(_, _)
TaggedRows(o, k) ==
  IF k > Len(o) THEN <<>>
  ELSE LET df == DictGet(cell_data, o[k])
       IN  [r \in 1..Len(df.data) |->
              <<Column(df, RE)[r], Column(df, IM)[r], o[k]>>]
           \o TaggedRows(o, k + 1)

\* The rows of a stored table, as (Re, -Im, source_file).
StoredRows(js) ==
  LET df == read_json(js)
  IN  [r \in 1..Len(df.data) |->
         <<Column(df, RE)[r], Column(df, IM)[r], Column(df, SOURCE_FILE)[r]>>]

\* C2: the query emits exactly one series for each indexed record whose
\* leading token equals (as a string, a prefix is no match) an identifier of
\* the set, and none for any other record; the stored table holds exactly the
\* rows of the emitted records, each tagged with its cell name; when nothing
\* matches, no series is emitted and no table is stored.
C2_QueryEmitsMatching ==
  pc = "serve" =>
    \E o \in Orders(MatchedCells) :
      /\ Len(figure.data) = Len(o)
      /\ \A k \in 1..Len(o) : IsSeriesOf(figure.data[k], o[k])
      /\ IF Len(o) = 0 THEN store = Nothing
         ELSE /\ store # Nothing
              /\ StoredRows(store[1]) = TaggedRows(o, 1)

\* A proper prefix.
IsProperPrefix(a, b) == Len(a) < Len(b) /\ SubSeq(b, 1, Len(a)) = a

\* C2's case: a query has emitted a series while the index also holds a
\* record whose leading token only starts with an identifier of the set.
C2_Witness ==
  /\ pc = "serve"
  /\ lastCallback = "update_graph_and_store_data"
  /\ figure.data # <<>>
  /\ store # Nothing
  /\ \E k \in 1..Len(cell_data), id \in target_ids :
       IsProperPrefix(id, LeadingToken(cell_data[k].key))

\* The wide pivot of the points a figure shows.
FigureTable(fig) ==
  LET Rows(t) == [r \in 1..Len(t.x) |-> <<t.x[r], t.y[r], t.customdata[r]>>]
      AllRows[k \in 0..Len(fig.data)] ==
        IF k = 0 THEN <<>> ELSE AllRows[k - 1] \o Rows(fig.data[k])
  IN  [columns |-> <<RE, IM, SOURCE_FILE>>,
       index |-> [r \in 1..Len(AllRows[Len(fig.data)]) |-> r - 1],
       data |-> AllRows[Len(fig.data)]]

\* The export did not fail on a table without rows.
ExportRan == ~(EmptyStored /\ pivot_empty_raises)

LongCells(js) == {StoredRows(js)[r][3] : r \in 1..Len(js.data)}

LongSeries(js, c) ==
  SelectSeq(StoredRows(js), LAMBDA row : row[3] = c)

MaxOf(S) == CHOOSE m \in S : \A n \in S : n <= m

ValidFile(filepath) ==
  /\ read_csv(filepath).ok
  /\ HasColumn(read_csv(filepath).df, RE)
  /\ HasColumn(read_csv(filepath).df, IM)

InFailed(name) == \E k \in 1..Len(failed_files) : failed_files[k] = name

\* C5: every file the loop has been through is in exactly one of the index
\* (under its stem) and failed_files (under its name), in the index iff it is
\* valid; nothing else is in either; the loop goes through every file, and
\* then the loaded count plus the failed files is the count of files found.
C5_IngestPartitions ==
  /\ pc \in {"ingest", "serve"} =>
       /\ \A k \in 1..file_idx :
            LET name == Basename(mpt_files[k])
            IN  /\ DictHas(cell_data, Splitext0(name)) # InFailed(name)
                /\ DictHas(cell_data, Splitext0(name)) = ValidFile(mpt_files[k])
       /\ Len(cell_data) + Len(failed_files) = file_idx
  /\ pc = "serve" =>
       /\ file_idx = Len(mpt_files)
       /\ files_found_count = Len(mpt_files)
       /\ files_loaded_count + Len(failed_files) = files_found_count

\* C5's case: start-up is over, and a file that failed came before one that
\* was loaded.
C5_Witness ==
  /\ pc = "serve"
  /\ \E j, k \in 1..Len(mpt_files) :
       /\ j < k
       /\ InFailed(Basename(mpt_files[j]))
       /\ DictHas(cell_data, Splitext0(Basename(mpt_files[k])))

\* The identifier of a series: the leading token of its name.
SeriesId(t) == LeadingToken(t.name)

\* C6: series are emitted in ascending order of their identifier, in numeric
\* order and in string order alike.
C6_AscendingIds ==
  pc = "serve" =>
    \A j, k \in 1..Len(figure.data) :
      j < k =>
        /\ ~StrLess(SeriesId(figure.data[k]), SeriesId(figure.data[j]))
        /\ DigitsValue(SeriesId(figure.data[j]))
             <= DigitsValue(SeriesId(figure.data[k]))

\* C7 as stated: after an export has produced a stored table, a further
\* export with no query in between does not produce that table again.
C7_ConsumedOnce ==
  [][(/\ pc = "serve"
      /\ lastCallback = "download_data"
      /\ download # Nothing
      /\ store # Nothing
      /\ ExportRan
      /\ n_clicks' = n_clicks + 1) => download' # download]_vars

\* C7 as amended: an export leaves the store as it is, and a further export
\* with no query in between produces the same table again.
C7_ExportRepeats ==
  [][(/\ pc = "serve"
      /\ lastCallback = "download_data"
      /\ n_clicks' = n_clicks + 1) =>
       (store' = store /\ download' = download)]_vars

\* C7's case: a second export in a row, of a stored table.
C7_Witness ==
  /\ pc = "serve"
  /\ lastCallback = "download_data"
  /\ n_clicks >= 2
  /\ store # Nothing
  /\ download # Nothing

\* C8: once start-up is over no query and no export changes the index or
\* failed_files.
C8_IndexReadOnly ==
  [][pc = "serve" =>
       (cell_data' = cell_data /\ failed_files' = failed_files)]_vars

\* C8's case: a query has plotted records of the index and an export has
\* read them, with a failed file on record.
C8_Witness ==
  /\ pc = "serve"
  /\ lastCallback = "download_data"
  /\ figure.data # <<>>
  /\ download # Nothing
  /\ failed_files # <<>>

\* The legend name of the claim: the name up to its last underscore when what
\* follows is 'C' and one or more digits, the whole name otherwise.
C9_LegendName(name) ==
  LET us == {k \in 1..Len(name) : name[k] = "_"}
  IN  IF us = {} THEN name
      ELSE LET last == CHOOSE k \in us : \A j \in us : j <= k
               tail == SubSeq(name, last + 1, Len(name))
           IN  IF /\ Len(tail) >= 2
                  /\ tail[1] = "C"
                  /\ \A k \in 2..Len(tail) : tail[k] \in Digits
               THEN SubSeq(name, 1, last - 1)
               ELSE name

\* C9: every emitted series carries, as its legend group (and name), the
\* legend name of its cell.
C9_SeriesLegend ==
  pc = "serve" =>
    \E o \in Orders(MatchedCells) :
      /\ Len(figure.data) = Len(o)
      /\ \A k \in 1..Len(o) :
           /\ IsSeriesOf(figure.data[k], o[k])
           /\ figure.data[k].legendgroup = C9_LegendName(o[k])
           /\ figure.data[k].name = C9_LegendName(o[k])

\* C9's case: one series has lost its '_C<digits>' suffix in the legend and
\* another keeps its whole cell name.
C9_Witness ==
  /\ pc = "serve"
  /\ \E j, k \in 1..Len(figure.data) :
       /\ figure.data[j].customdata # <<>>
       /\ figure.data[j].legendgroup # figure.data[j].customdata[1]
       /\ DictHas(cell_data, figure.data[k].legendgroup)

\* The files whose leading token (before the first underscore of the file
\* name) is an integer.
ParsableFiles ==
  {k \in 1..Len(mpt_files) :
     IsDigit(LeadingToken(Basename(mpt_files[k])))}

\* C10: the largest-id message names a cell whose file's leading token is the
\* numerically largest among the files whose token is an integer, the other
\* files being skipped.
C10_LargestSkipsUnparsable ==
  (pc = "serve" /\ ParsableFiles # {}) =>
    /\ largest_file_message.kind = "cell"
    /\ \E k \in ParsableFiles :
         /\ largest_file_message.cell = Splitext0(Basename(mpt_files[k]))
         /\ \A j \in ParsableFiles :
              DigitsValue(LeadingToken(Basename(mpt_files[j])))
                <= DigitsValue(LeadingToken(Basename(mpt_files[k])))

====
